---- MODULE Spec2Model ----
(***************************************************************************)
(* Professor ratings: the course table's rating aggregation                *)
(* (CourseTable.fetchProfessorRatings), the professor details modal        *)
(* (ProfessorDetailsModal.fetchReviews / handleSubmitReview) and the       *)
(* remote "reviews" collection they read and append to.                    *)
(*                                                                         *)
(* Numbers with one decimal (the means) are integers in tenths: 4.0 is 40. *)
(* Every await is a step of its own: the call is one action, the promise's *)
(* resolution or rejection another, so other events interleave between.    *)
(***************************************************************************)
EXTENDS Integers, Sequences, FiniteSets, TLC

VARIABLES
    store,              \* remote collection "reviews", in insertion order
    currentUser,        \* auth.currentUser (ambient), NoUser when signed out
    sections,           \* CourseTable prop: the professor of each section
    selectedProfessor,  \* CourseTable state
    showReviewModal,    \* CourseTable state
    selectedSection,    \* CourseTable state
    professorRatings,   \* CourseTable state: professor -> summary
    rateSection,        \* last argument of the onRateSection prop, 0 = never called
    aggRuns,            \* runs of fetchProfessorRatings awaiting getDocs
    lastPublished,      \* history: professors and logged errors of the run that set professorRatings
    reviews,            \* ProfessorDetailsModal state
    loading,            \* ProfessorDetailsModal state
    averageRating,      \* ProfessorDetailsModal state (tenths)
    newRating,          \* ProfessorDetailsModal state
    newComment,         \* ProfessorDetailsModal state
    submitting,         \* ProfessorDetailsModal state
    lastFetchFailed,    \* history: the modal's latest completed fetch logged an error
    fetches,            \* the modal's getDocs calls in flight
    writes,             \* the modal's addDoc calls in flight
    toast,              \* last notice shown by react-hot-toast
    acked               \* history: records whose addDoc resolved

vars == <<store, currentUser, sections, selectedProfessor, showReviewModal,
          selectedSection, professorRatings, rateSection, aggRuns, lastPublished,
          reviews, loading, averageRating, newRating, newComment, submitting,
          lastFetchFailed, fetches, writes, toast, acked>>

tableVars == <<sections, selectedProfessor, showReviewModal, selectedSection,
               professorRatings, rateSection, aggRuns, lastPublished>>

modalVars == <<reviews, loading, averageRating, newRating, newComment,
               submitting, lastFetchFailed>>

-----------------------------------------------------------------------------
(* Bounds of the model *)

MaxSubmits == 1      \* Spec: submissions issued and not rejected
MaxFetches == 1      \* Spec: the modal's getDocs calls in flight at once
MaxWrites == 1       \* Spec: addDoc calls in flight at once
MaxAggRuns == 1      \* Spec: runs of fetchProfessorRatings in flight at once
MaxSubmitsM == 2     \* SpecModal: submissions issued and not rejected
MaxFetchesM == 2     \* SpecModal: the modal's getDocs calls in flight at once
MaxWritesM == 2      \* SpecModal: addDoc calls in flight at once
MaxReviews == 3      \* SpecAgg: records of the initial store
MaxAggRunsA == 1     \* SpecAgg: runs of fetchProfessorRatings in flight at once
MaxSubmitsF == 2     \* SpecForm: submissions issued and not rejected
MaxFetchesF == 1     \* SpecForm: the modal's getDocs calls in flight at once
MaxWritesF == 1      \* SpecForm: addDoc calls in flight at once
MaxSubmitsL == 1     \* SpecLive: submissions issued and not rejected
MaxFetchesL == 2     \* SpecLive: the modal's getDocs calls in flight at once
MaxWritesL == 1      \* SpecLive: addDoc calls in flight at once
MaxReviewsS == 3     \* SpecSub: records of the initial store
MaxAggRunsS == 1     \* SpecSub: runs of fetchProfessorRatings in flight at once

(* Small input sets *)

Professors == {"A", "B"}
Users == {"u1", "u2"}
NoUser == "none"
NoProfessor == "none"
\* the select with an extra placeholder option of value 0
RatingOptionsWithPlaceholder == {5, 4, 3, 2, 1, 0}

RatingOptions == {5, 4, 3, 2, 1}
RatingInputs == {2}
Comments == {"c"}
SectionChoices == {<<"A", "B">>, <<"B", "A", "B">>}
DefaultRating == 5

-----------------------------------------------------------------------------
(* The reviews collection *)

Review(p, u, r, c, t) ==
    [professorId |-> p, userId |-> u, rating |-> r, comment |-> c, timestamp |-> t]

\* a review of professor A left earlier by another user
InitialStore == <<Review("A", "u0", 3, "c", 0)>>

\* Logical client clock: the number of records persisted so far.
Now == Len(store)

RECURSIVE FilterByProfessor(_, _)
FilterByProfessor(docs, p) ==
    IF docs = <<>> THEN <<>>
    ELSE IF Head(docs).professorId = p
         THEN <<Head(docs)>> \o FilterByProfessor(Tail(docs), p)
         ELSE FilterByProfessor(Tail(docs), p)

\* setDoc under a key made of the professor: the write replaces his document
PersistKeyedByProfessor(docs, rec) ==
    SelectSeq(docs, LAMBDA d : d.professorId # rec.professorId) \o <<rec>>

\* the write sent twice
PersistTwice(docs, rec) == docs \o <<rec, rec>>

\* addDoc(collection(firestore,'reviews'), rec): a new document, the others untouched
Persist(docs, rec) == Append(docs, rec)

\* the query answered from the documents read when the page loaded
ReviewsQueryCached(p) == FilterByProfessor(InitialStore, p)

\* getDocs(query(collection(firestore,'reviews'), where('professorId','==',p)))
ReviewsQuery(p) == FilterByProfessor(store, p)

RECURSIVE SumRatings(_)
SumRatings(docs) ==
    IF docs = <<>> THEN 0 ELSE Head(docs).rating + SumRatings(Tail(docs))

\* the mean cut to one decimal instead of rounded
ToFixed1Truncating(total, count) == (10 * total) \div count

\* Number((total / count).toFixed(1)) in tenths, for total >= 0 and count > 0.
\* toFixed picks the nearest tenth and the larger one on a tie; the ties that
\* occur for count < 20 are quarters, which a double holds exactly.
ToFixed1(total, count) == (20 * total + count) \div (2 * count)

Average(docs) == ToFixed1(SumRatings(docs), Len(docs))

-----------------------------------------------------------------------------
(* CourseTable: fetchProfessorRatings *)

RECURSIVE Dedupe(_, _)
Dedupe(seq, seen) ==
    IF seq = <<>> THEN <<>>
    ELSE IF Head(seq) \in seen
         THEN Dedupe(Tail(seq), seen)
         ELSE <<Head(seq)>> \o Dedupe(Tail(seq), seen \cup {Head(seq)})

\* [...new Set(sections.map(section => section.professor))]
UniqueProfessors(secs) == Dedupe(secs, {})

Range(seq) == {seq[i] : i \in 1..Len(seq)}

RemoveAt(seq, k) == [j \in 1..(Len(seq) - 1) |-> IF j < k THEN seq[j] ELSE seq[j + 1]]

NoRatings == [q \in {} |-> [rating |-> 0]]

\* ratings[professor] = {...}
Put(ratings, p, summary) ==
    [q \in (DOMAIN ratings) \cup {p} |-> IF q = p THEN summary ELSE ratings[q]]

\* the sub-ratings a review may carry beside its overall rating
SubFields == {"clarity", "fairness", "punctuality", "wouldTakeAgain"}

\* an absent sub-rating falls back to the review's overall rating
OrOverall(review, f) == IF f \in DOMAIN review THEN review[f] ELSE review.rating

\* (review.clarity || 0): an absent field (undefined) and a zero are falsy
OrZero(review, f) ==
    IF f \in DOMAIN review /\ review[f] # 0 THEN review[f] ELSE 0

\* acc.clarity + (review.clarity || 0), reduced from 0 over the fetched documents
RECURSIVE SumField(_, _)
SumField(docs, f) ==
    IF docs = <<>> THEN 0 ELSE OrZero(Head(docs), f) + SumField(Tail(docs), f)

\* the totals reduced over the fetched documents, each divided by count
Summarize(docs) ==
    [rating         |-> ToFixed1(SumRatings(docs), Len(docs)),
     clarity        |-> ToFixed1(SumField(docs, "clarity"), Len(docs)),
     fairness       |-> ToFixed1(SumField(docs, "fairness"), Len(docs)),
     punctuality    |-> ToFixed1(SumField(docs, "punctuality"), Len(docs)),
     wouldTakeAgain |-> ToFixed1(SumField(docs, "wouldTakeAgain"), Len(docs))]

\* the try/catch around the whole loop: the first error ends the loop
AggIterateAborting(run, ok) ==
    LET p == Head(run.todo)
        docs == ReviewsQuery(p)
    IN  [todo   |-> IF ok THEN Tail(run.todo) ELSE <<>>,
         profs  |-> run.profs,
         ratings |-> IF ok /\ Len(docs) > 0
                     THEN Put(run.ratings, p, Summarize(docs))
                     ELSE run.ratings,
         failed |-> IF ok THEN run.failed ELSE run.failed \cup {p}]

\* one iteration of the for loop once getDocs has returned or thrown
AggIterate(run, ok) ==
    LET p == Head(run.todo)
        docs == ReviewsQuery(p)
    IN  [todo   |-> Tail(run.todo),
         profs  |-> run.profs,
         ratings |-> IF ok /\ Len(docs) > 0
                     THEN Put(run.ratings, p, Summarize(docs))
                     ELSE run.ratings,
         failed |-> IF ok THEN run.failed ELSE run.failed \cup {p}]

NewRun(secs) ==
    [todo |-> UniqueProfessors(secs), profs |-> Range(secs),
     ratings |-> NoRatings, failed |-> {}]

\* the run goes on to its next await, or ends with setProfessorRatings(ratings)
AggContinue(run, others) ==
    IF run.todo = <<>>
    THEN /\ professorRatings' = run.ratings
         /\ lastPublished' = [profs |-> run.profs, failed |-> run.failed]
         /\ aggRuns' = others
    ELSE /\ aggRuns' = Append(others, run)
         /\ UNCHANGED <<professorRatings, lastPublished>>

\* the sections prop changes: the effect starts a run
SectionsChange(secs) ==
    /\ sections' = secs
    /\ AggContinue(NewRun(secs), aggRuns)
    /\ UNCHANGED <<store, currentUser, selectedProfessor, showReviewModal,
                   selectedSection, rateSection, fetches, writes, toast, acked>>
    /\ UNCHANGED modalVars

AggFetchOk(i) ==
    /\ i \in 1..Len(aggRuns)
    /\ AggContinue(AggIterate(aggRuns[i], TRUE), RemoveAt(aggRuns, i))
    /\ UNCHANGED <<store, currentUser, sections, selectedProfessor, showReviewModal,
                   selectedSection, rateSection, fetches, writes, toast, acked>>
    /\ UNCHANGED modalVars

AggFetchFail(i) ==
    /\ i \in 1..Len(aggRuns)
    /\ AggContinue(AggIterate(aggRuns[i], FALSE), RemoveAt(aggRuns, i))
    /\ UNCHANGED <<store, currentUser, sections, selectedProfessor, showReviewModal,
                   selectedSection, rateSection, fetches, writes, toast, acked>>
    /\ UNCHANGED modalVars

\* getRatingBadgeColor (the same in both versions of CourseTable); the
\* argument in tenths
getRatingBadgeColor(rating) ==
    IF rating >= 40 THEN "bg-green-500"
    ELSE IF rating >= 30 THEN "bg-yellow-500"
    ELSE "bg-red-500"

\* RatingButton of CourseTable.tsx: Sin calificacion, or the badge of the mean
RatingButtonColor(p) ==
    IF p \notin DOMAIN professorRatings THEN "bg-gray"
    ELSE getRatingBadgeColor(professorRatings[p].rating)

\* the earlier CourseTable: the inline badge next to the professor's name
InlineBadgeColor(p) ==
    IF p \notin DOMAIN professorRatings THEN "none"
    ELSE getRatingBadgeColor(professorRatings[p].rating)

\* the earlier CourseTable: normalizedRating = professorRating * 2 (10-point
\* scale) is what its RatingButton hands to getRatingBadgeColor
NormalizedRatingButtonColor(p) ==
    IF p \notin DOMAIN professorRatings THEN "bg-gray"
    ELSE getRatingBadgeColor(professorRatings[p].rating * 2)

-----------------------------------------------------------------------------
(* CourseTable: which modal is rendered (lines 204-226) *)

\* the details modal rendered whenever a professor is selected
DetailsRenderedWhenSelected(sp, srm) == sp # NoProfessor

\* {selectedProfessor && !showReviewModal && <ProfessorDetailsModal .../>}
DetailsRendered(sp, srm) == sp # NoProfessor /\ ~srm

\* {showReviewModal && selectedProfessor && auth.currentUser && <ReviewModal .../>}
ReviewRendered(sp, srm, user) == srm /\ sp # NoProfessor /\ user # NoUser

\* setState of an unmounted component does nothing: a call in flight stays in
\* flight, but its continuation no longer reaches any state
Orphan(calls) == [k \in DOMAIN calls |-> [calls[k] EXCEPT !.live = FALSE]]

\* useState initial values of ProfessorDetailsModal
ModalInitial ==
    /\ reviews' = <<>>
    /\ loading' = TRUE
    /\ averageRating' = 0
    /\ newRating' = DefaultRating
    /\ newComment' = ""
    /\ submitting' = FALSE
    /\ lastFetchFailed' = FALSE

\* fetchReviews up to its await: setLoading(true), getDocs called. The
\* continuation of a fetch only sets state of its modal; once the modal is
\* unmounted it changes nothing, and the call is no longer followed.
FetchCall(p) == [prof |-> p]

\* CourseTable re-renders with selectedProfessor = sp and showReviewModal = srm:
\* the details modal is mounted, kept (the effect of [isOpen, professorId]
\* runs again when professorId differs) or unmounted
RenderDetails(sp, srm) ==
    IF DetailsRendered(sp, srm)
    THEN IF DetailsRendered(selectedProfessor, showReviewModal)
         THEN IF sp = selectedProfessor
              THEN UNCHANGED <<fetches, writes>> /\ UNCHANGED modalVars
              ELSE /\ loading' = TRUE
                   /\ fetches' = Append(fetches, FetchCall(sp))
                   /\ UNCHANGED <<reviews, averageRating, newRating, newComment,
                                  submitting, lastFetchFailed, writes>>
         ELSE /\ ModalInitial
              /\ fetches' = Append(fetches, FetchCall(sp))
              /\ UNCHANGED writes
    ELSE IF DetailsRendered(selectedProfessor, showReviewModal)
         THEN /\ ModalInitial
              /\ fetches' = <<>>
              /\ writes' = Orphan(writes)
         ELSE UNCHANGED <<fetches, writes>> /\ UNCHANGED modalVars

\* onClick of the "Ver detalles del profesor" button of section i
ClickProfessorDetails(i) ==
    /\ i \in 1..Len(sections)
    /\ selectedProfessor' = sections[i]
    /\ RenderDetails(sections[i], showReviewModal)
    /\ UNCHANGED <<store, currentUser, sections, showReviewModal, selectedSection,
                   professorRatings, rateSection, aggRuns, lastPublished, toast, acked>>

handleRateClick(i) ==
    /\ i \in 1..Len(sections)
    /\ IF currentUser = NoUser
       THEN /\ rateSection' = i
            /\ UNCHANGED <<selectedSection, selectedProfessor, showReviewModal,
                           fetches, writes>>
            /\ UNCHANGED modalVars
       ELSE /\ selectedSection' = i
            /\ selectedProfessor' = sections[i]
            /\ showReviewModal' = TRUE
            /\ RenderDetails(sections[i], TRUE)
            /\ UNCHANGED rateSection
    /\ UNCHANGED <<store, currentUser, sections, professorRatings, aggRuns,
                   lastPublished, toast, acked>>

\* onClose of ProfessorDetailsModal
CloseDetails ==
    /\ DetailsRendered(selectedProfessor, showReviewModal)
    /\ selectedProfessor' = NoProfessor
    /\ RenderDetails(NoProfessor, showReviewModal)
    /\ UNCHANGED <<store, currentUser, sections, showReviewModal, selectedSection,
                   professorRatings, rateSection, aggRuns, lastPublished, toast, acked>>

\* onClose of ReviewModal
CloseReviewModal ==
    /\ ReviewRendered(selectedProfessor, showReviewModal, currentUser)
    /\ showReviewModal' = FALSE
    /\ selectedProfessor' = NoProfessor
    /\ RenderDetails(NoProfessor, FALSE)
    /\ UNCHANGED <<store, currentUser, sections, selectedSection, professorRatings,
                   rateSection, aggRuns, lastPublished, toast, acked>>

-----------------------------------------------------------------------------
(* The auth provider *)

SignIn(u) ==
    /\ currentUser = NoUser
    /\ currentUser' = u
    /\ UNCHANGED <<store, fetches, writes, toast, acked>>
    /\ UNCHANGED tableVars
    /\ UNCHANGED modalVars

SignOut ==
    /\ currentUser # NoUser
    /\ currentUser' = NoUser
    /\ UNCHANGED <<store, fetches, writes, toast, acked>>
    /\ UNCHANGED tableVars
    /\ UNCHANGED modalVars

-----------------------------------------------------------------------------
(* ProfessorDetailsModal *)

Mounted == DetailsRendered(selectedProfessor, showReviewModal)

\* onChange of the rating select
SetNewRating(v) ==
    /\ Mounted
    /\ newRating' = v
    /\ UNCHANGED <<store, currentUser, fetches, writes, toast, acked, reviews, loading,
                   averageRating, newComment, submitting, lastFetchFailed>>
    /\ UNCHANGED tableVars

\* onChange of the comment input
SetNewComment(c) ==
    /\ Mounted
    /\ newComment' = c
    /\ UNCHANGED <<store, currentUser, fetches, writes, toast, acked, reviews, loading,
                   averageRating, newRating, submitting, lastFetchFailed>>
    /\ UNCHANGED tableVars

\* the document handed to addDoc, and the closure awaiting it
WriteCall ==
    [rec  |-> Review(selectedProfessor, currentUser, newRating, newComment, Now),
     live |-> TRUE]

\* handleSubmitReview without its check of auth.currentUser
handleSubmitReviewUnchecked ==
    /\ Mounted
    /\ ~submitting
    /\ newComment # ""
    /\ submitting' = TRUE
    /\ writes' = Append(writes, WriteCall)
    /\ UNCHANGED <<store, currentUser, fetches, acked, reviews, loading, averageRating,
                   newRating, newComment, lastFetchFailed, toast>>
    /\ UNCHANGED tableVars

\* handleSubmitReview up to its await. The form submits only with a comment
\* (required) and with its button enabled (disabled={submitting}); the form
\* was drawn by a render that saw a user, which a later sign-out does not redo.
handleSubmitReview ==
    /\ Mounted
    /\ ~submitting
    /\ newComment # ""
    /\ IF currentUser = NoUser
       THEN /\ toast' = "login"
            /\ UNCHANGED <<writes, submitting>>
       ELSE /\ submitting' = TRUE
            /\ writes' = Append(writes, WriteCall)
            /\ UNCHANGED toast
    /\ UNCHANGED <<store, currentUser, fetches, acked, reviews, loading, averageRating,
                   newRating, newComment, lastFetchFailed>>
    /\ UNCHANGED tableVars

\* addDoc resolves: the collection holds the document; the try block goes on
\* to toast.success, the form's reset and fetchReviews(); finally
AddDocOk(k) ==
    /\ k \in 1..Len(writes)
    /\ store' = Persist(store, writes[k].rec)
    /\ acked' = Append(acked, writes[k].rec)
    /\ toast' = "success"
    /\ fetches' = IF writes[k].live
                  THEN Append(fetches, FetchCall(writes[k].rec.professorId))
                  ELSE fetches
    /\ writes' = RemoveAt(writes, k)
    /\ IF writes[k].live
       THEN /\ newComment' = ""
            /\ newRating' = DefaultRating
            /\ loading' = TRUE
            /\ submitting' = FALSE
            /\ UNCHANGED <<reviews, averageRating, lastFetchFailed>>
       ELSE UNCHANGED modalVars
    /\ UNCHANGED currentUser
    /\ UNCHANGED tableVars

\* a catch block that clears the form and sends the document again
AddDocFailRetrying(k) ==
    /\ k \in 1..Len(writes)
    /\ toast' = "error"
    /\ writes' = Append(RemoveAt(writes, k), writes[k])
    /\ IF writes[k].live
       THEN /\ newComment' = ""
            /\ newRating' = DefaultRating
            /\ UNCHANGED <<reviews, loading, averageRating, submitting, lastFetchFailed>>
       ELSE UNCHANGED modalVars
    /\ UNCHANGED <<store, currentUser, fetches, acked>>
    /\ UNCHANGED tableVars

\* a rejected addDoc whose document reached the collection all the same
AddDocFailPersisting(k) ==
    /\ k \in 1..Len(writes)
    /\ toast' = "error"
    /\ writes' = RemoveAt(writes, k)
    /\ store' = Append(store, writes[k].rec)
    /\ IF writes[k].live
       THEN /\ submitting' = FALSE
            /\ UNCHANGED <<reviews, loading, averageRating, newRating, newComment,
                           lastFetchFailed>>
       ELSE UNCHANGED modalVars
    /\ UNCHANGED <<currentUser, fetches, acked>>
    /\ UNCHANGED tableVars

\* addDoc rejects: catch, finally
AddDocFail(k) ==
    /\ k \in 1..Len(writes)
    /\ toast' = "error"
    /\ writes' = RemoveAt(writes, k)
    /\ IF writes[k].live
       THEN /\ submitting' = FALSE
            /\ UNCHANGED <<reviews, loading, averageRating, newRating, newComment,
                           lastFetchFailed>>
       ELSE UNCHANGED modalVars
    /\ UNCHANGED <<store, currentUser, fetches, acked>>
    /\ UNCHANGED tableVars

\* getDocs of fetchReviews resolves
GetDocsOk(k) ==
    /\ k \in 1..Len(fetches)
    /\ fetches' = RemoveAt(fetches, k)
    /\ LET reviewsData == ReviewsQuery(fetches[k].prof)
       IN  /\ reviews' = reviewsData
           /\ averageRating' = IF Len(reviewsData) > 0
                               THEN Average(reviewsData)
                               ELSE averageRating
           /\ loading' = FALSE
           /\ lastFetchFailed' = FALSE
           /\ UNCHANGED <<newRating, newComment, submitting>>
    /\ UNCHANGED <<store, currentUser, writes, toast, acked>>
    /\ UNCHANGED tableVars

\* setLoading(false) at the end of the try block instead of in finally
GetDocsFailNoFinally(k) ==
    /\ k \in 1..Len(fetches)
    /\ fetches' = RemoveAt(fetches, k)
    /\ lastFetchFailed' = TRUE
    /\ UNCHANGED <<reviews, loading, averageRating, newRating, newComment, submitting>>
    /\ UNCHANGED <<store, currentUser, writes, toast, acked>>
    /\ UNCHANGED tableVars

\* getDocs of fetchReviews rejects
GetDocsFail(k) ==
    /\ k \in 1..Len(fetches)
    /\ fetches' = RemoveAt(fetches, k)
    /\ loading' = FALSE
    /\ lastFetchFailed' = TRUE
    /\ UNCHANGED <<reviews, averageRating, newRating, newComment, submitting>>
    /\ UNCHANGED <<store, currentUser, writes, toast, acked>>
    /\ UNCHANGED tableVars

-----------------------------------------------------------------------------
(* Specifications *)


InitClient ==
    /\ currentUser = NoUser
    /\ selectedProfessor = NoProfessor
    /\ showReviewModal = FALSE
    /\ selectedSection = 0
    /\ professorRatings = NoRatings
    /\ rateSection = 0
    /\ lastPublished = [profs |-> {}, failed |-> {}]
    /\ reviews = <<>>
    /\ loading = TRUE
    /\ averageRating = 0
    /\ newRating = DefaultRating
    /\ newComment = ""
    /\ submitting = FALSE
    /\ lastFetchFailed = FALSE
    /\ fetches = <<>>
    /\ writes = <<>>
    /\ toast = "none"
    /\ acked = <<>>

\* CourseTable mounts: the effect starts its first run
Init ==
    /\ store = InitialStore
    /\ sections = <<"A", "B">>
    /\ aggRuns = <<NewRun(sections)>>
    /\ InitClient

Next ==
    \/ \E u \in {"u1"} : SignIn(u)
    \/ SignOut
    \/ \E secs \in {<<"A", "B">>} : Len(aggRuns) < MaxAggRuns /\ SectionsChange(secs)
    \/ \E i \in 1..MaxAggRuns : AggFetchOk(i)
    \/ \E i \in 1..MaxAggRuns : AggFetchFail(i)
    \/ \E i \in 1..2 : Len(fetches) < MaxFetches /\ ClickProfessorDetails(i)
    \/ \E i \in 1..2 : Len(fetches) < MaxFetches /\ handleRateClick(i)
    \/ CloseDetails
    \/ CloseReviewModal
    \/ \E v \in RatingInputs : SetNewRating(v)
    \/ \E c \in Comments : SetNewComment(c)
    \/ /\ Len(writes) < MaxWrites
       /\ Len(acked) + Len(writes) < MaxSubmits
       /\ handleSubmitReview
    \/ \E k \in 1..MaxWrites : Len(fetches) < MaxFetches /\ AddDocOk(k)
    \/ \E k \in 1..MaxWrites : AddDocFail(k)
    \/ \E k \in 1..MaxFetches : GetDocsOk(k)
    \/ \E k \in 1..MaxFetches : GetDocsFail(k)

Spec == Init /\ [][Next]_vars

(* The modal and its submissions alone, two users *)

NextModal ==
    \/ \E u \in Users : SignIn(u)
    \/ SignOut
    \/ \E i \in 1..2 : Len(fetches) < MaxFetchesM /\ ClickProfessorDetails(i)
    \/ CloseDetails
    \/ \E v \in RatingInputs : SetNewRating(v)
    \/ \E c \in Comments : SetNewComment(c)
    \/ /\ Len(writes) < MaxWritesM
       /\ Len(acked) + Len(writes) < MaxSubmitsM
       /\ handleSubmitReview
    \/ \E k \in 1..MaxWritesM : Len(fetches) < MaxFetchesM /\ AddDocOk(k)
    \/ \E k \in 1..MaxWritesM : AddDocFail(k)
    \/ \E k \in 1..MaxFetchesM : GetDocsOk(k)
    \/ \E k \in 1..MaxFetchesM : GetDocsFail(k)

SpecModal == Init /\ [][NextModal]_vars

(* The modal's form with every option of its rating select, one user *)

NextForm ==
    \/ \E u \in {"u1"} : SignIn(u)
    \/ SignOut
    \/ \E i \in 1..2 : Len(fetches) < MaxFetchesF /\ ClickProfessorDetails(i)
    \/ CloseDetails
    \/ \E v \in RatingOptions : SetNewRating(v)
    \/ \E c \in Comments : SetNewComment(c)
    \/ /\ Len(writes) < MaxWritesF
       /\ Len(acked) + Len(writes) < MaxSubmitsF
       /\ handleSubmitReview
    \/ \E k \in 1..MaxWritesF : Len(fetches) < MaxFetchesF /\ AddDocOk(k)
    \/ \E k \in 1..MaxWritesF : AddDocFail(k)
    \/ \E k \in 1..MaxFetchesF : GetDocsOk(k)
    \/ \E k \in 1..MaxFetchesF : GetDocsFail(k)

SpecForm == Init /\ [][NextForm]_vars

(* The modal with remote calls that all return or throw, one user *)

NextLive ==
    \/ \E u \in {"u1"} : SignIn(u)
    \/ SignOut
    \/ \E i \in 1..2 : Len(fetches) < MaxFetchesL /\ ClickProfessorDetails(i)
    \/ CloseDetails
    \/ \E v \in RatingInputs : SetNewRating(v)
    \/ \E c \in Comments : SetNewComment(c)
    \/ /\ Len(writes) < MaxWritesL
       /\ Len(acked) + Len(writes) < MaxSubmitsL
       /\ handleSubmitReview
    \/ \E k \in 1..MaxWritesL : Len(fetches) < MaxFetchesL /\ AddDocOk(k)
    \/ \E k \in 1..MaxWritesL : AddDocFail(k)
    \/ \E k \in 1..MaxFetchesL : GetDocsOk(k)
    \/ \E k \in 1..MaxFetchesL : GetDocsFail(k)

\* every getDocs and every addDoc in flight is eventually answered, by its
\* result or by an error; nothing is assumed of the user
RemoteCallsReturn ==
    /\ \A k \in 1..MaxFetchesL : WF_vars(GetDocsOk(k) \/ GetDocsFail(k))
    /\ \A k \in 1..MaxWritesL : WF_vars(AddDocOk(k) \/ AddDocFail(k))

SpecLive == Init /\ [][NextLive]_vars /\ RemoteCallsReturn

(* The aggregation alone, over every small collection *)

RECURSIVE StoresOfLen(_)
StoresOfLen(n) ==
    IF n = 0 THEN {<<>>}
    ELSE {Append(docs, Review(p, "u0", r, "c", 0)) :
            docs \in StoresOfLen(n - 1), p \in Professors, r \in RatingOptions}

InitAgg ==
    /\ store \in UNION {StoresOfLen(n) : n \in 0..MaxReviews}
    /\ sections \in SectionChoices
    /\ aggRuns = <<NewRun(sections)>>
    /\ InitClient

NextAgg ==
    \/ \E secs \in SectionChoices : Len(aggRuns) < MaxAggRunsA /\ SectionsChange(secs)
    \/ \E i \in 1..MaxAggRunsA : AggFetchOk(i)
    \/ \E i \in 1..MaxAggRunsA : AggFetchFail(i)

SpecAgg == InitAgg /\ [][NextAgg]_vars

(* The aggregation alone, over collections whose records carry sub-ratings,
   all of them, some of them or (the older records) none *)

\* the sub-ratings of a record, by field; a field left out is absent
SubProfiles ==
    {<<>>,
     [clarity |-> 5, fairness |-> 4, punctuality |-> 3, wouldTakeAgain |-> 2],
     [clarity |-> 1, fairness |-> 2, punctuality |-> 4, wouldTakeAgain |-> 0],
     [clarity |-> 4, wouldTakeAgain |-> 1],
     [fairness |-> 5, punctuality |-> 2]}

\* a review of 3 stars with the sub-ratings of profile sub
SubReview(p, sub) ==
    [f \in DOMAIN Review(p, "u0", 3, "c", 0) \cup DOMAIN sub |->
        IF f \in DOMAIN sub THEN sub[f] ELSE Review(p, "u0", 3, "c", 0)[f]]

RECURSIVE SubStoresOfLen(_)
SubStoresOfLen(n) ==
    IF n = 0 THEN {<<>>}
    ELSE {Append(docs, SubReview(p, sub)) :
            docs \in SubStoresOfLen(n - 1), p \in Professors, sub \in SubProfiles}

InitSub ==
    /\ store \in UNION {SubStoresOfLen(n) : n \in 0..MaxReviewsS}
    /\ sections \in SectionChoices
    /\ aggRuns = <<NewRun(sections)>>
    /\ InitClient

NextSub ==
    \/ \E secs \in SectionChoices : Len(aggRuns) < MaxAggRunsS /\ SectionsChange(secs)
    \/ \E i \in 1..MaxAggRunsS : AggFetchOk(i)
    \/ \E i \in 1..MaxAggRunsS : AggFetchFail(i)

SpecSub == InitSub /\ [][NextSub]_vars

-----------------------------------------------------------------------------
(* Properties *)

\* the records of professor p in the collection, by position
RecordsOf(p) == {i \in 1..Len(store) : store[i].professorId = p}

RECURSIVE RatingTotal(_)
RatingTotal(positions) ==
    IF positions = {} THEN 0
    ELSE LET i == CHOOSE j \in positions : TRUE
         IN  store[i].rating + RatingTotal(positions \ {i})

Abs(x) == IF x < 0 THEN -x ELSE x

\* m tenths is a tenth nearest to total / count
NearestTenth(m, total, count) == 2 * Abs(m * count - 10 * total) <= count

\* C1: for every professor of the published run, with N records r1..rN in the
\* collection: N = 0 gives no entry; N > 0 and a fetch that returned gives an
\* entry whose overall mean is (r1+...+rN)/N rounded to one decimal; and no
\* entry is anything else.
C1_MeanRoundedToOneDecimal ==
    /\ DOMAIN professorRatings \subseteq lastPublished.profs
    /\ \A p \in lastPublished.profs :
         LET N == Cardinality(RecordsOf(p))
         IN  /\ N = 0 => p \notin DOMAIN professorRatings
             /\ (N > 0 /\ p \notin lastPublished.failed) => p \in DOMAIN professorRatings
             /\ p \in DOMAIN professorRatings =>
                  NearestTenth(professorRatings[p].rating, RatingTotal(RecordsOf(p)), N)

\* a run has published professor B, whose three ratings have the mean
\* 14/3 = 4.66..., as 4.7, and professor A, who has no review, without entry
C1_Witness ==
    /\ aggRuns = <<>>
    /\ Cardinality(RecordsOf("B")) = 3
    /\ RatingTotal(RecordsOf("B")) = 14
    /\ "B" \in DOMAIN professorRatings
    /\ professorRatings["B"].rating = 47
    /\ "A" \in lastPublished.profs
    /\ RecordsOf("A") = {}
    /\ "A" \notin DOMAIN professorRatings

TierColor(mean) ==
    IF mean >= 40 THEN "bg-green-500"
    ELSE IF mean >= 30 THEN "bg-yellow-500"
    ELSE "bg-red-500"

\* C8: at every place a badge is coloured, the colour is the tier of the
\* professor's mean on the 1-5 scale: positive from 4.0, neutral from 3.0 up
\* to 4.0, negative below 3.0.
C8_BadgeTierOfMean ==
    \A p \in DOMAIN professorRatings :
        /\ RatingButtonColor(p) = TierColor(professorRatings[p].rating)
        /\ InlineBadgeColor(p) = TierColor(professorRatings[p].rating)
        /\ NormalizedRatingButtonColor(p) = TierColor(professorRatings[p].rating)

\* C2: a run of handleSubmitReview or of handleRateClick that starts with no
\* current user issues no insert: the collection, the inserts in flight and
\* the acknowledged inserts are after it what they were before.
C2_NoWriteWhenSignedOut ==
    [][(currentUser = NoUser /\ (handleSubmitReview \/ \E i \in 1..2 : handleRateClick(i)))
        => (store' = store /\ writes' = writes /\ acked' = acked)]_vars

\* signed out, the submit has been refused with its notice and the rate click
\* handed to onRateSection
C2_Witness ==
    /\ currentUser = NoUser
    /\ toast = "login"
    /\ rateSection # 0
    /\ Mounted
    /\ newComment # ""

Quiescent == aggRuns = <<>> /\ fetches = <<>> /\ writes = <<>>

\* C4: once nothing is in flight any more and no fetch has failed, the
\* summary held for the professor of every acknowledged submission, in the
\* course table and in the modal, is computed from the collection with the
\* new record in it.
C4_SummaryReflectsSubmission ==
    (Quiescent /\ lastPublished.failed = {} /\ ~lastFetchFailed) =>
        \A i \in 1..Len(acked) :
            LET p == acked[i].professorId
            IN  /\ p \in Range(sections) =>
                     /\ p \in DOMAIN professorRatings
                     /\ NearestTenth(professorRatings[p].rating,
                                     RatingTotal(RecordsOf(p)), Cardinality(RecordsOf(p)))
                /\ (Mounted /\ selectedProfessor = p) =>
                     NearestTenth(averageRating,
                                  RatingTotal(RecordsOf(p)), Cardinality(RecordsOf(p)))

\* C7: after a fetch for a professor has failed his summary is absent: the
\* published ratings have no entry for him, and the modal whose latest fetch
\* failed shows no reviews and no average.
C7_FetchErrorIsNoRatings ==
    /\ \A p \in lastPublished.failed : p \notin DOMAIN professorRatings
    /\ (Mounted /\ lastFetchFailed /\ ~loading) => (reviews = <<>> /\ averageRating = 0)

IsPrefix(a, b) == Len(a) <= Len(b) /\ SubSeq(b, 1, Len(a)) = a

\* C9: every step leaves the records of the collection in place, and the
\* only step that changes the collection is the resolution of an addDoc
\* issued by a signed-in user, which appends its record; the fetches of the
\* aggregation and of the modal leave the collection as it is.
C9_AppendOnly ==
    [][/\ IsPrefix(store, store')
       /\ store' # store =>
            \E k \in 1..Len(writes) :
                /\ AddDocOk(k)
                /\ writes[k].rec.userId \in Users
                /\ store' = Append(store, writes[k].rec)
       /\ ((\E i \in 1..MaxAggRuns : AggFetchOk(i) \/ AggFetchFail(i))
            \/ (\E k \in 1..MaxFetches : GetDocsOk(k) \/ GetDocsFail(k)))
           => store' = store]_vars

\* a submission has been appended behind the earlier record, after the
\* aggregation has published, a fetch of it has failed and the modal has
\* fetched its reviews
C9_Witness ==
    /\ Len(store) = Len(InitialStore) + 1
    /\ IsPrefix(InitialStore, store)
    /\ acked # <<>>
    /\ lastPublished.failed # {}
    /\ DOMAIN professorRatings # {}
    /\ Len(reviews) = 2
    /\ ~loading

Count(docs, rec) == Cardinality({i \in 1..Len(docs) : docs[i] = rec})

\* C3: a fetch of the modal for professor P that returns hands over every
\* record of P whose insert had been acknowledged, and the displayed list,
\* its count and the displayed mean are those of all records of P in the
\* collection, the new one included.
C3_NextFetchIncludesSubmission ==
    [][\A k \in 1..MaxFetchesM :
         GetDocsOk(k) =>
           LET p == fetches[k].prof
           IN  /\ \A i \in 1..Len(acked) :
                    acked[i].professorId = p => Count(reviews', acked[i]) >= 1
               /\ Len(reviews') = Cardinality(RecordsOf(p))
               /\ \A j \in 1..Len(reviews') : reviews'[j].professorId = p
               /\ Len(reviews') > 0 =>
                    NearestTenth(averageRating', RatingTotal(RecordsOf(p)), Len(reviews'))]_vars

\* the modal of professor A shows the earlier review (3) and the one just
\* submitted (5), two reviews with the mean 4.0
C3_Witness ==
    /\ Mounted
    /\ selectedProfessor = "A"
    /\ ~loading
    /\ Len(acked) = 1
    /\ reviews = InitialStore \o acked
    /\ acked[1].rating = 5
    /\ averageRating = 40

\* C5: the collection holds one record more for every acknowledged
\* submission and for nothing else, and a submit by a signed-in user issues
\* exactly one insert, also while an earlier insert is in flight.
C5_OneRecordPerSubmit ==
    /\ [](Len(store) = Len(InitialStore) + Len(acked))
    /\ [][(handleSubmitReview /\ currentUser # NoUser)
            => writes' = Append(writes, WriteCall)]_vars
    /\ [][\A k \in 1..MaxWritesM :
            AddDocOk(k) => (Len(store') = Len(store) + 1 /\ Len(acked') = Len(acked) + 1)]_vars

\* two submissions acknowledged, the second issued while the first was still
\* in flight (its timestamp is from before the first was persisted)
C5_Witness ==
    /\ Len(acked) = 2
    /\ Len(store) = Len(InitialStore) + 2
    /\ store[Len(store)].timestamp < Len(store) - 1

\* C6: when addDoc rejects, the error notice is shown, the collection gains
\* nothing, the form's rating and comment, the displayed reviews and the
\* displayed average stay as they are, and nothing is sent again.
C6_FailedWriteChangesNothing ==
    [][\A k \in 1..MaxWritesM :
         AddDocFail(k) =>
           /\ toast' = "error"
           /\ store' = store
           /\ acked' = acked
           /\ newRating' = newRating
           /\ newComment' = newComment
           /\ reviews' = reviews
           /\ averageRating' = averageRating
           /\ fetches' = fetches
           /\ writes' = RemoveAt(writes, k)
           /\ writes[k].live => ~submitting']_vars

\* the write of a filled form (2 stars, a comment) has failed: the notice is
\* up, the form and the display are as submitted, nothing is in flight
C6_Witness ==
    /\ Mounted
    /\ toast = "error"
    /\ newRating = 2
    /\ newComment = "c"
    /\ ~submitting
    /\ ~loading
    /\ reviews = InitialStore
    /\ store = InitialStore
    /\ writes = <<>>
    /\ fetches = <<>>

\* C10: every acknowledged insert is in the collection, as often as it was
\* acknowledged, whatever the order in which the inserts in flight resolved.
C10_ConcurrentAppendsAllPresent ==
    \A i \in 1..Len(acked) : Count(store, acked[i]) >= Count(acked, acked[i])

\* two users' submissions for one professor, both in the collection, the
\* later one issued before the earlier one was persisted
C10_Witness ==
    \E i \in 1..Len(store) : \E j \in (i + 1)..Len(store) :
        /\ store[i].professorId = store[j].professorId
        /\ store[i].userId \in Users
        /\ store[j].userId \in Users
        /\ store[i].userId # store[j].userId
        /\ store[j].timestamp < i
        /\ Count(acked, store[i]) = 1
        /\ Count(acked, store[j]) = 1
        /\ writes = <<>>

\* the sum of sub-rating f over the records at these positions that carry it
RECURSIVE PresentTotal(_, _)
PresentTotal(positions, f) ==
    IF positions = {} THEN 0
    ELSE LET i == CHOOSE j \in positions : TRUE
         IN  (IF f \in DOMAIN store[i] THEN store[i][f] ELSE 0)
             + PresentTotal(positions \ {i}, f)

\* C11: every published entry's clarity, fairness, punctuality and
\* wouldTakeAgain is the sum of the values present on the professor's records
\* divided by the number N of all his records, rounded to one decimal: a
\* record without the field adds nothing to the sum and still counts in N.
C11_AbsentSubRatingCountsAsZero ==
    \A p \in DOMAIN professorRatings :
        \A f \in SubFields :
            NearestTenth(professorRatings[p][f],
                         PresentTotal(RecordsOf(p), f), Cardinality(RecordsOf(p)))

\* professor B has three records, two with clarity (5 and 4) and an older one
\* without any sub-rating: his clarity is published as 9/3 = 3.0, not 4.5
C11_Witness ==
    /\ aggRuns = <<>>
    /\ "B" \in DOMAIN professorRatings
    /\ Cardinality(RecordsOf("B")) = 3
    /\ Cardinality({i \in RecordsOf("B") : "clarity" \in DOMAIN store[i]}) = 2
    /\ PresentTotal(RecordsOf("B"), "clarity") = 9
    /\ professorRatings["B"].clarity = 30
    /\ professorRatings["B"].fairness = 13

\* C12: while the details modal is open for professor P and not loading, the
\* reviews it lists are records of P as a fetch of the collection returns
\* them, and the average it shows is the mean of exactly these reviews,
\* rounded to one decimal; with no review listed it shows the average it
\* starts with, not one computed from another fetched set.
C12_AverageIsMeanOfDisplayedReviews ==
    (Mounted /\ ~loading) =>
        /\ \A j \in 1..Len(reviews) : reviews[j].professorId = selectedProfessor
        /\ IsPrefix(reviews, ReviewsQuery(selectedProfessor))
        /\ reviews # <<>> =>
              NearestTenth(averageRating, SumRatings(reviews), Len(reviews))
        /\ reviews = <<>> => averageRating = 0

\* C13: the form's rating, the rating of every insert in flight and the
\* rating of every record of the collection is one of 1, 2, 3, 4, 5, whatever
\* the form edits and submits before.
C13_PersistedRatingInOneToFive ==
    /\ newRating \in 1..5
    /\ \A k \in 1..Len(writes) : writes[k].rec.rating \in 1..5
    /\ \A i \in 1..Len(store) : store[i].rating \in 1..5
    /\ \A i \in 1..Len(acked) : acked[i].rating \in 1..5

\* the user has submitted the lowest option (1 star) and then, without
\* touching the select again, the value the form resets to (5 stars)
C13_Witness ==
    /\ Len(acked) = 2
    /\ acked[1].rating = 1
    /\ acked[2].rating = 5
    /\ store = InitialStore \o acked

\* C14: once every fetch of the open details modal has completed, the latest
\* without error, the reviews it lists are reviews of the professor it is
\* open for, as fetched for him, with their mean as the average, also when a
\* fetch for the professor shown before was still in flight at the change.
C14_StaleFetchNeverShown ==
    (Mounted /\ fetches = <<>> /\ ~loading /\ ~lastFetchFailed) =>
        /\ \A j \in 1..Len(reviews) : reviews[j].professorId = selectedProfessor
        /\ IsPrefix(reviews, ReviewsQuery(selectedProfessor))
        /\ reviews # <<>> =>
              NearestTenth(averageRating, SumRatings(reviews), Len(reviews))

C16_BusyFlagsClear ==
    /\ [](Mounted /\ loading => fetches # <<>>)
    /\ [](submitting => \E k \in 1..Len(writes) : writes[k].live)
    /\ (Mounted /\ loading) ~> (~loading \/ ~Mounted)
    /\ submitting ~> ~submitting

\* in the open modal a submission has failed and a later fetch has failed:
\* both flags are clear again
C16_Witness ==
    /\ Mounted
    /\ toast = "error"
    /\ lastFetchFailed
    /\ ~loading
    /\ ~submitting
    /\ fetches = <<>>
    /\ writes = <<>>

\* C17: a run of fetchProfessorRatings goes on to its next professor after a
\* fetch that failed as after one that returned, and publishes once, with
\* its last professor; what it publishes holds, for every professor of the
\* sections whose fetch returned and who has a review, the means of his
\* records, whichever other fetches failed.
C17_FetchFailureIsolated ==
    /\ [](\A p \in lastPublished.profs \ lastPublished.failed :
            RecordsOf(p) # {} =>
                /\ p \in DOMAIN professorRatings
                /\ NearestTenth(professorRatings[p].rating,
                                RatingTotal(RecordsOf(p)), Cardinality(RecordsOf(p)))
                /\ \A f \in SubFields :
                     NearestTenth(professorRatings[p][f],
                                  PresentTotal(RecordsOf(p), f), Cardinality(RecordsOf(p))))
    /\ [][\A i \in 1..Len(aggRuns) :
            (AggFetchOk(i) \/ AggFetchFail(i)) =>
                IF Len(aggRuns[i].todo) > 1
                THEN /\ professorRatings' = professorRatings
                     /\ Len(aggRuns') = Len(aggRuns)
                     /\ aggRuns'[Len(aggRuns')].todo = Tail(aggRuns[i].todo)
                ELSE /\ Len(aggRuns') = Len(aggRuns) - 1
                     /\ lastPublished'.profs = aggRuns[i].profs
                     /\ DOMAIN professorRatings' \subseteq aggRuns[i].profs]_vars
    /\ [][professorRatings' # professorRatings =>
            \E i \in 1..Len(aggRuns) :
                /\ AggFetchOk(i) \/ AggFetchFail(i)
                /\ Len(aggRuns[i].todo) = 1]_vars

\* the fetch for A, the first professor of the run, failed although A has
\* reviews; the run went on and published B's summary alone
C17_Witness ==
    /\ aggRuns = <<>>
    /\ sections = <<"A", "B">>
    /\ lastPublished.failed = {"A"}
    /\ RecordsOf("A") # {}
    /\ Cardinality(RecordsOf("B")) = 2
    /\ "A" \notin DOMAIN professorRatings
    /\ "B" \in DOMAIN professorRatings
    /\ NearestTenth(professorRatings["B"].rating, RatingTotal(RecordsOf("B")), 2)

====
